---- MODULE Spec2Model ----
(***************************************************************************)
(* The chat interface of the AI app builder: the two ChatInterface         *)
(* components of the repository (the staged one with makeAPICall, and the  *)
(* one with useRetry and a cancel token), and the fenced-code-block        *)
(* extraction they share.                                                  *)
(*                                                                         *)
(* Text is a sequence of characters; a character is a one-letter string,   *)
(* except "BT" (a backtick), "NL" (a newline), "SP" (a space) and "CR" (a  *)
(* carriage return).                                                       *)
(***************************************************************************)
EXTENDS Integers, Sequences, FiniteSets, TLC

\* ------------------------------------------------------------------ bounds

\* Submissions accepted in one session.
MaxSubs == 2

\* Parts (gaps, fenced blocks, dangling openers) of a generated response text.
MaxParts == 3

\* The calls of onFileGenerated that throw.
MaxThrows == 1

\* The latest call of one emission loop that throws.
MaxThrowAt == 1

\* -------------------------------------------------------------- characters

LowerCase ==
  { "a", "b", "c", "d", "e", "f", "g", "h", "i", "j", "k", "l", "m",
    "n", "o", "p", "q", "r", "s", "t", "u", "v", "w", "x", "y", "z" }

UpperCase ==
  { "A", "B", "C", "D", "E", "F", "G", "H", "I", "J", "K", "L", "M",
    "N", "O", "P", "Q", "R", "S", "T", "U", "V", "W", "X", "Y", "Z" }

Digits == { "0", "1", "2", "3", "4", "5", "6", "7", "8", "9" }

\* \w of a JavaScript regular expression
WordChars == LowerCase \cup UpperCase \cup Digits \cup { "_" }

IsWord(c) == c \in WordChars

\* \s of a JavaScript regular expression, and what String.trim removes
IsSpace(c) == c \in { "SP", "NL", "CR", "TAB" }

\* String.toLowerCase on one character
LowerOf(c) ==
  CASE c = "A" -> "a" [] c = "B" -> "b" [] c = "C" -> "c" [] c = "D" -> "d"
    [] c = "E" -> "e" [] c = "F" -> "f" [] c = "G" -> "g" [] c = "H" -> "h"
    [] c = "I" -> "i" [] c = "J" -> "j" [] c = "K" -> "k" [] c = "L" -> "l"
    [] c = "M" -> "m" [] c = "N" -> "n" [] c = "O" -> "o" [] c = "P" -> "p"
    [] c = "Q" -> "q" [] c = "R" -> "r" [] c = "S" -> "s" [] c = "T" -> "t"
    [] c = "U" -> "u" [] c = "V" -> "v" [] c = "W" -> "w" [] c = "X" -> "x"
    [] c = "Y" -> "y" [] c = "Z" -> "z"
    [] OTHER -> c

toLowerCase(s) == [k \in 1..Len(s) |-> LowerOf(s[k])]

RECURSIVE TrimLeft(_)
TrimLeft(s) == IF s # <<>> /\ IsSpace(Head(s)) THEN TrimLeft(Tail(s)) ELSE s

RECURSIVE TrimRight(_)
TrimRight(s) ==
  IF s # <<>> /\ IsSpace(s[Len(s)]) THEN TrimRight(SubSeq(s, 1, Len(s) - 1)) ELSE s

\* String.trim
trim(s) == TrimRight(TrimLeft(s))

\* String.includes
includes(s, k) ==
  \E p \in 1..(Len(s) - Len(k) + 1) : SubSeq(s, p, p + Len(k) - 1) = k

\* ------------------------------------------------- fenced code extraction

\* three backticks at position p of t
IsFenceAt(t, p) ==
  p + 2 <= Len(t) /\ t[p] = "BT" /\ t[p + 1] = "BT" /\ t[p + 2] = "BT"

\* the first position at or after p that is not a word character: where the
\* greedy (\w+)? of the regular expression ends
RECURSIVE WordRunEnd(_, _)
WordRunEnd(t, p) ==
  IF p <= Len(t) /\ IsWord(t[p]) THEN WordRunEnd(t, p + 1) ELSE p

\* the first fence at or after p, 0 when there is none: where the lazy
\* ([\s\S]*?) followed by ``` ends
RECURSIVE NextFence(_, _)
NextFence(t, p) ==
  IF p + 2 > Len(t) THEN 0
  ELSE IF IsFenceAt(t, p) THEN p
  ELSE NextFence(t, p + 1)

NoMatch == [ok |-> FALSE, lang |-> <<>>, body |-> <<>>, from |-> 0, end |-> 0]

\* one attempt of /```(\w+)?\n([\s\S]*?)```/ anchored at position p: the tag
\* run must be followed by a newline at once (a shorter tag would be followed
\* by a word character), and the body ends at the first later fence
MatchAt(t, p) ==
  IF ~IsFenceAt(t, p) THEN NoMatch
  ELSE LET k == WordRunEnd(t, p + 3) IN
       IF k > Len(t) \/ t[k] # "NL" THEN NoMatch
       ELSE LET m == NextFence(t, k + 1) IN
            IF m = 0 THEN NoMatch
            ELSE [ok |-> TRUE, lang |-> SubSeq(t, p + 3, k - 1),
                  body |-> SubSeq(t, k + 1, m - 1), from |-> p, end |-> m + 3]

\* the successive matches of the global regular expression from lastIndex p
RECURSIVE ExecFrom(_, _)
ExecFrom(t, p) ==
  IF p > Len(t) THEN <<>>
  ELSE LET r == MatchAt(t, p) IN
       IF r.ok THEN <<r>> \o ExecFrom(t, r.end) ELSE ExecFrom(t, p + 1)

codeBlockRegex(t) == ExecFrom(t, 1)

getLanguageExtension(language) ==
  CASE language = <<"j", "a", "v", "a", "s", "c", "r", "i", "p", "t">> -> <<"j", "s">>
    [] language = <<"t", "y", "p", "e", "s", "c", "r", "i", "p", "t">> -> <<"t", "s">>
    [] language = <<"p", "y", "t", "h", "o", "n">> -> <<"p", "y">>
    [] language = <<"c", "s", "s">> -> <<"c", "s", "s">>
    [] language = <<"h", "t", "m", "l">> -> <<"h", "t", "m", "l">>
    [] language = <<"j", "s", "o", "n">> -> <<"j", "s", "o", "n">>
    [] language = <<"j", "s", "x">> -> <<"j", "s", "x">>
    [] language = <<"t", "s", "x">> -> <<"t", "s", "x">>
    [] language = <<"s", "c", "s", "s">> -> <<"s", "c", "s", "s">>
    [] language = <<"l", "e", "s", "s">> -> <<"l", "e", "s", "s">>
    [] language = <<"s", "q", "l">> -> <<"s", "q", "l">>
    [] language = <<"y", "a", "m", "l">> -> <<"y", "m", "l">>
    [] language = <<"m", "a", "r", "k", "d", "o", "w", "n">> -> <<"m", "d">>
    [] OTHER -> <<"t", "x", "t">>

\* the sentinel language of a block without a tag
TextLanguage == <<"t", "e", "x", "t">>

\* the decimal digits of a natural number
RECURSIVE NumberText(_)
NumberText(n) ==
  LET d == <<"0", "1", "2", "3", "4", "5", "6", "7", "8", "9">>[(n % 10) + 1] IN
  IF n < 10 THEN <<d>> ELSE NumberText(n \div 10) \o <<d>>

\* parseCodeBlocks: one block per match, in match order; the file name is
\* `generated_file_${index + 1}.${extension}`
parseCodeBlocks(content) ==
  LET ms == codeBlockRegex(content) IN
  [k \in 1..Len(ms) |->
     LET language == IF ms[k].lang # <<>> THEN ms[k].lang ELSE TextLanguage IN
     [language |-> language,
      code |-> trim(ms[k].body),
      fileName |-> <<"g", "e", "n", "e", "r", "a", "t", "e", "d", "_", "f", "i", "l",
                     "e", "_">> \o NumberText(k) \o <<".">>
                     \o getLanguageExtension(language)]]

\* handleFileGeneration's own extraction: aiResponse.match(regex), the matched
\* substrings in order
matchCodeBlocks(aiResponse) ==
  LET ms == codeBlockRegex(aiResponse) IN
  [k \in 1..Len(ms) |-> SubSeq(aiResponse, ms[k].from, ms[k].end - 1)]

\* block.match(/```(\w+)/): the word run after the first fence that has one
languageMatch(block) ==
  LET ps == { p \in 1..Len(block) :
                IsFenceAt(block, p) /\ p + 3 <= Len(block) /\ IsWord(block[p + 3]) } IN
  IF ps = {} THEN TextLanguage
  ELSE LET p == CHOOSE q \in ps : \A r \in ps : q <= r IN
       SubSeq(block, p + 3, WordRunEnd(block, p + 3) - 1)

\* block.replace(/```\w*\n/, ''): the first fence followed by a word run and a
\* newline is removed
StripOpener(block) ==
  LET ps == { p \in 1..Len(block) :
                IsFenceAt(block, p)
                /\ WordRunEnd(block, p + 3) <= Len(block)
                /\ block[WordRunEnd(block, p + 3)] = "NL" } IN
  IF ps = {} THEN block
  ELSE LET p == CHOOSE q \in ps : \A r \in ps : q <= r IN
       SubSeq(block, 1, p - 1) \o SubSeq(block, WordRunEnd(block, p + 3) + 1, Len(block))

\* .replace(/```$/, ''): a fence at the very end is removed
StripCloser(block) ==
  IF Len(block) >= 3 /\ IsFenceAt(block, Len(block) - 2)
  THEN SubSeq(block, 1, Len(block) - 3) ELSE block

blockCode(block) == StripCloser(StripOpener(block))

\* ------------------------------------------------------------ the session

\* useRetry(3)
maxRetries == 3

\* makeAPICall's default retries
retries == 3

\* characters per chunk of simulateTyping in the staged component
CHUNK_SIZE == 15

\* the stage catalog of the staged component: the progress of each stage
GENERATION_STAGES == <<0, 25, 50, 75, 100>>

codeKeywords ==
  { <<"c", "r", "e", "a", "t", "e">>,
    <<"b", "u", "i", "l", "d">>,
    <<"m", "a", "k", "e">>,
    <<"g", "e", "n", "e", "r", "a", "t", "e">>,
    <<"d", "e", "v", "e", "l", "o", "p">>,
    <<"w", "r", "i", "t", "e">>,
    <<"c", "o", "d", "e">>,
    <<"a", "p", "p">>,
    <<"a", "p", "p", "l", "i", "c", "a", "t", "i", "o", "n">>,
    <<"w", "e", "b", "s", "i", "t", "e">>,
    <<"w", "e", "b">>,
    <<"f", "u", "n", "c", "t", "i", "o", "n">>,
    <<"c", "o", "m", "p", "o", "n", "e", "n", "t">>,
    <<"c", "l", "a", "s", "s">>,
    <<"m", "o", "d", "u", "l", "e">>,
    <<"s", "c", "r", "i", "p", "t">>,
    <<"p", "r", "o", "g", "r", "a", "m">>,
    <<"t", "o", "d", "o">>,
    <<"c", "a", "l", "c", "u", "l", "a", "t", "o", "r">>,
    <<"g", "a", "m", "e">>,
    <<"d", "a", "s", "h", "b", "o", "a", "r", "d">>,
    <<"f", "o", "r", "m">>,
    <<"l", "o", "g", "i", "n">>,
    <<"s", "i", "g", "n", "u", "p">>,
    <<"a", "p", "i">>,
    <<"d", "a", "t", "a", "b", "a", "s", "e">>,
    <<"a", "d", "d">>,
    <<"i", "m", "p", "l", "e", "m", "e", "n", "t">>,
    <<"d", "e", "s", "i", "g", "n">>,
    <<"s", "e", "t", "u", "p">>,
    <<"c", "o", "n", "f", "i", "g", "u", "r", "e">> }

\* isCodeGenerationRequest: the lower-cased, trimmed input contains a keyword
isCodeGenerationRequest(input) ==
  LET lowerInput == trim(toLowerCase(input)) IN
  \E keyword \in codeKeywords : includes(lowerInput, keyword)

\* the inputs of the model
PromptBuild ==
  <<"b", "u", "i", "l", "d", "SP", "a", "SP", "t", "o", "d", "o", "SP", "a", "p", "p">>
PromptHi == <<"h", "i">>
PromptBlank == <<"SP">>
Prompts == { PromptBuild, PromptHi, PromptBlank, <<>> }

RespPlain == <<"o", "k">>
RespTwo ==
  <<"BT", "BT", "BT", "h", "t", "m", "l", "NL", "<", "!", "D", "O", "C", "T", "Y", "P",
    "E", "SP", "h", "t", "m", "l", ">", "<", "p", ">", "BT", "BT", "BT", "NL",
    "BT", "BT", "BT", "c", "s", "s", "NL", "b", "o", "d", "y", "SP", "{", "}", "NL",
    "BT", "BT", "BT">>
\* the response field of a parsed body
Responses == { RespPlain, RespTwo }

\* the text shown when the body has no response field (<<>>)
DefaultReply == <<"D", "E", "F", "A", "U", "L", "T">>

generatingCode ==
  <<"G", "e", "n", "e", "r", "a", "t", "i", "n", "g", "SP", "c", "o", "d", "e", ".", ".", ".">>

VARIABLES
  component,          \* "A": the staged component; "B": the one with useRetry
  messages,           \* the message log
  nextId,             \* Date.now() of the next message
  isLoading,
  isGenerationMode,
  generationComplete,
  liveCoding,
  currentStageIndex,  \* A
  error,              \* A: the error banner
  currentStage,       \* B
  errorAlerts,        \* B
  cancelToken,        \* B: 0 (null) or the submission whose token the state holds
  abortControllerRef, \* B: 0 (null) or the submission that created it
  retryCount,         \* B
  user,               \* whether useAuth gives a user
  subs,               \* each submission's continuation
  nsubs,              \* submissions started
  fileCalls,          \* the calls of onFileGenerated
  projects,           \* the calls of createProject
  extracted,          \* the blocks the component extracts from each reply text
  parts, text, blocks, xpc,  \* the extraction specification
  nameInput, nameCalls,      \* the file-name specification
  replay                     \* the typing specification

sessionVars ==
  <<component, messages, nextId, isLoading, isGenerationMode, generationComplete,
    liveCoding, currentStageIndex, error, currentStage, errorAlerts, cancelToken,
    abortControllerRef, retryCount, user, subs, nsubs, fileCalls, projects>>

extractVars == <<extracted, parts, text, blocks, xpc>>

nameVars == <<nameInput, nameCalls>>

typingVars == <<replay>>

\* what the session leaves alone
pureVars == <<extractVars, nameVars, typingVars>>

vars == <<sessionVars, pureVars>>

Subs == 1..MaxSubs

\* ------------------------------------------------------ file-name inference
\* A double quote is the character "QT".

\* the texts generateFileName looks for with includes
Signatures ==
  [doctype |-> <<"<", "!", "D", "O", "C", "T", "Y", "P", "E", "SP", "h", "t", "m",
                 "l">>,
   html |-> <<"<", "h", "t", "m", "l">>,
   package |-> <<"p", "a", "c", "k", "a", "g", "e", ".", "j", "s", "o", "n">>,
   name |-> <<"QT", "n", "a", "m", "e", "QT">>,
   version |-> <<"QT", "v", "e", "r", "s", "i", "o", "n", "QT">>,
   body |-> <<"b", "o", "d", "y", "SP", "{">>,
   media |-> <<"@", "m", "e", "d", "i", "a">>,
   font |-> <<"f", "o", "n", "t", "-", "f", "a", "m", "i", "l", "y", ":">>,
   express |-> <<"c", "o", "n", "s", "t", "SP", "e", "x", "p", "r", "e", "s", "s">>,
   listen |-> <<"a", "p", "p", ".", "l", "i", "s", "t", "e", "n">>,
   class |-> <<"c", "l", "a", "s", "s", "SP">>,
   constructor |-> <<"c", "o", "n", "s", "t", "r", "u", "c", "t", "o", "r">>,
   function |-> <<"f", "u", "n", "c", "t", "i", "o", "n", "SP">>,
   const |-> <<"c", "o", "n", "s", "t", "SP">>,
   let |-> <<"l", "e", "t", "SP">>]

\* the names generateFileName returns, and the parts of its templates
FileNames ==
  [indexHtml |-> <<"i", "n", "d", "e", "x", ".", "h", "t", "m", "l">>,
   packageJson |-> <<"p", "a", "c", "k", "a", "g", "e", ".", "j", "s", "o", "n">>,
   styleCss |-> <<"s", "t", "y", "l", "e", ".", "c", "s", "s">>,
   serverJs |-> <<"s", "e", "r", "v", "e", "r", ".", "j", "s">>,
   appJs |-> <<"a", "p", "p", ".", "j", "s">>,
   script |-> <<"s", "c", "r", "i", "p", "t">>,
   js |-> <<".", "j", "s">>,
   file |-> <<"f", "i", "l", "e">>,
   txt |-> <<".", "t", "x", "t">>]

\* (?:filename:|file:)
Keywords ==
  [filename |-> <<"f", "i", "l", "e", "n", "a", "m", "e", ":">>,
   file |-> <<"f", "i", "l", "e", ":">>]

\* [a-zA-Z0-9] of generateFileName's regular expression
AlnumChars == LowerCase \cup UpperCase \cup Digits

\* [a-zA-Z0-9._-]
NameChars == AlnumChars \cup { ".", "_", "-" }

\* w stands at position p of line
StartsWith(line, p, w) ==
  p + Len(w) - 1 <= Len(line) /\ SubSeq(line, p, p + Len(w) - 1) = w

\* the same under the i flag (w in lower case)
StartsWithIgnoreCase(line, p, w) ==
  p + Len(w) - 1 <= Len(line) /\ toLowerCase(SubSeq(line, p, p + Len(w) - 1)) = w

\* (?:\/\/|\/\*|\#|<!--) at position p: the position after it, 0 when none
MarkerEnd(line, p) ==
  IF StartsWith(line, p, <<"/", "/">>) THEN p + 2
  ELSE IF StartsWith(line, p, <<"/", "*">>) THEN p + 2
  ELSE IF StartsWith(line, p, <<"#">>) THEN p + 1
  ELSE IF StartsWith(line, p, <<"<", "!", "-", "-">>) THEN p + 4
  ELSE 0

\* \s* from position p: the first position that holds no whitespace
RECURSIVE SpaceRunEnd(_, _)
SpaceRunEnd(line, p) ==
  IF p <= Len(line) /\ IsSpace(line[p]) THEN SpaceRunEnd(line, p + 1) ELSE p

RECURSIVE NameRunEnd(_, _)
NameRunEnd(line, p) ==
  IF p <= Len(line) /\ line[p] \in NameChars THEN NameRunEnd(line, p + 1) ELSE p

RECURSIVE AlnumRunEnd(_, _)
AlnumRunEnd(line, p) ==
  IF p <= Len(line) /\ line[p] \in AlnumChars THEN AlnumRunEnd(line, p + 1) ELSE p

\* (?:filename:|file:) at position p: the position after it, 0 when none
KeywordEnd(line, p) ==
  IF StartsWithIgnoreCase(line, p, Keywords.filename) THEN p + Len(Keywords.filename)
  ELSE IF StartsWithIgnoreCase(line, p, Keywords.file) THEN p + Len(Keywords.file)
  ELSE 0

Min(a, b) == IF a < b THEN a ELSE b

Max(S) == CHOOSE x \in S : \A y \in S : y <= x

\* ([a-zA-Z0-9._-]+\.[a-zA-Z0-9]+) at position p, <<>> when it does not match:
\* the greedy name run gives back characters down to its last dot that an
\* alphanumeric follows, and the extension is the alphanumeric run after it
CaptureAt(line, p) ==
  LET e == NameRunEnd(line, p)
      ds == { d \in (p + 1)..(e - 1) :
                line[d] = "." /\ d + 1 <= Len(line) /\ line[d + 1] \in AlnumChars } IN
  IF ds = {} THEN <<>>
  ELSE SubSeq(line, p, AlnumRunEnd(line, Max(ds) + 1) - 1)

\* one attempt of the regular expression anchored at position m: the marker,
\* whitespace, the keyword when what follows it matches (else no keyword),
\* whitespace, the captured name
MatchFrom(line, m) ==
  LET afterMarker == MarkerEnd(line, m) IN
  IF afterMarker = 0 THEN <<>>
  ELSE LET s == SpaceRunEnd(line, afterMarker)
           k == KeywordEnd(line, s)
           withKeyword == IF k = 0 THEN <<>>
                          ELSE CaptureAt(line, SpaceRunEnd(line, k)) IN
       IF withKeyword # <<>> THEN withKeyword ELSE CaptureAt(line, s)

\* line.match(regex)[1]: the leftmost match's capture, <<>> for null
fileMatch(line) ==
  LET ms == { m \in 1..Len(line) : MatchFrom(line, m) # <<>> } IN
  IF ms = {} THEN <<>>
  ELSE MatchFrom(line, CHOOSE m \in ms : \A n \in ms : m <= n)

\* codeBlock.split('\n')
RECURSIVE SplitLines(_)
SplitLines(codeBlock) ==
  LET nls == { p \in 1..Len(codeBlock) : codeBlock[p] = "NL" } IN
  IF nls = {} THEN <<codeBlock>>
  ELSE LET p == CHOOSE n \in nls : \A o \in nls : n <= o IN
       <<SubSeq(codeBlock, 1, p - 1)>>
         \o SplitLines(SubSeq(codeBlock, p + 1, Len(codeBlock)))

\* lines.slice(0, 5)
SCAN_LINES == 5

\* a name that counts the calls made so far
ScriptNameCounted(index) == FileNames.script \o NumberText(Len(nameCalls) + 1) \o FileNames.js

\* `script${index + 1}.js`
ScriptName(index) == FileNames.script \o NumberText(index + 1) \o FileNames.js

\* `file${index + 1}.txt`
FallbackName(index) == FileNames.file \o NumberText(index + 1) \o FileNames.txt

\* generateFileName past the comment scan: the content rules, in order
ContentName(codeBlock, index) ==
  IF includes(codeBlock, Signatures.doctype) \/ includes(codeBlock, Signatures.html) THEN FileNames.indexHtml
  ELSE IF includes(codeBlock, Signatures.package)
          \/ (includes(codeBlock, Signatures.name) /\ includes(codeBlock, Signatures.version))
       THEN FileNames.packageJson
  ELSE IF includes(codeBlock, Signatures.body) \/ includes(codeBlock, Signatures.media)
          \/ includes(codeBlock, Signatures.font)
       THEN FileNames.styleCss
  ELSE IF includes(codeBlock, Signatures.express) \/ includes(codeBlock, Signatures.listen)
       THEN FileNames.serverJs
  ELSE IF includes(codeBlock, Signatures.class) /\ includes(codeBlock, Signatures.constructor)
       THEN FileNames.appJs
  ELSE IF includes(codeBlock, Signatures.function) \/ includes(codeBlock, Signatures.const)
          \/ includes(codeBlock, Signatures.let)
       THEN ScriptName(index)
  ELSE FallbackName(index)

generateFileName(codeBlock, index) ==
  LET lines == SplitLines(codeBlock)
      scanned == SubSeq(lines, 1, Min(SCAN_LINES, Len(lines)))
      hits == { k \in 1..Len(scanned) : fileMatch(scanned[k]) # <<>> } IN
  IF hits # {} THEN fileMatch(scanned[CHOOSE k \in hits : \A j \in hits : k <= j])
  ELSE ContentName(codeBlock, index)

\* ------------------------------------------------- the session, continued

Msg(id, sender, type, content, sub, nfiles) ==
  [id |-> id, sender |-> sender, type |-> type, content |-> content,
   sub |-> sub, filesGenerated |-> nfiles]

\* a submission that has not started.  pc is where its continuation waits:
\*   "stage" (A: the 800 ms wait of a scripted stage), "fetch" (the request is
\*   out), "json" (response.json() is pending), "backoff" (the wait before the
\*   next attempt), "typing" and "pause" (A: simulateTyping's 8 ms wait and the
\*   100 ms wait after a file), "save" (A: createProject is pending), "done".
\* i is the retry loop's counter, cancelled the flag of the submission's cancel
\* token, genBranch the branch the submission takes (A: what its closure saw
\* of the mode; B: isCodeGenerationRequest of its message), codeBlocks the blocks
\* processGeneratedFiles parsed.  calls .. afterGen record
\* what the submission did: the requests it issued, the attempts that failed,
\* whether one of them failed on a malformed body, the error messages and the
\* other messages it appended, its onFileGenerated calls, whether a body was
\* parsed, and whether generation was complete when it was accepted.
EmptySub ==
  [pc |-> "idle", prompt |-> <<>>, genBranch |-> FALSE, i |-> 0,
   cancelled |-> FALSE, stage |-> 0, resp |-> <<>>, blk |-> 0, off |-> 0,
   codeBlocks |-> <<>>, files |-> <<>>,
   calls |-> 0, fails |-> 0, malformed |-> FALSE, errs |-> 0,
   replies |-> 0, emitted |-> 0, responded |-> FALSE, afterGen |-> FALSE,
   replayCut |-> FALSE, emitThrows |-> 0,
   saveLogged |-> "none", waits |-> <<>>, cancelSeen |-> FALSE]

InFlight(s) == subs[s].pc \notin { "idle", "done" }

\* the state of the first render, which the autoStartGeneration listener
\* (registered once, with no dependencies) keeps seeing
FirstRenderIsLoading == FALSE
FirstRenderGenerationBranch == TRUE /\ ~FALSE

\* handleSubmit's guard
CanSubmit(message, loading) == trim(message) # <<>> /\ ~loading

\* the text shown for a parsed body
ReplyText(resp) == IF resp # <<>> THEN resp ELSE DefaultReply

ReplyTexts == { ReplyText(resp) : resp \in Responses \cup { <<>> } }

\* handleFileGeneration's loop body for each matched block: the language, the
\* code and the inferred file name
fileBlocks(aiResponse) ==
  LET codeBlocks == matchCodeBlocks(aiResponse) IN
  [k \in 1..Len(codeBlocks) |->
     [language |-> languageMatch(codeBlocks[k]),
      code |-> blockCode(codeBlocks[k]),
      fileName |-> generateFileName(blockCode(codeBlocks[k]), k - 1)]]

\* the blocks each component extracts from each reply text
ExtractedBlocks ==
  [c \in { "A", "B" } |->
     [t \in ReplyTexts |-> IF c = "A" THEN parseCodeBlocks(t) ELSE fileBlocks(t)]]

\* the calls of onFileGenerated that threw, in all submissions
EmitThrows ==
  LET sum[k \in 0..MaxSubs] == IF k = 0 THEN 0 ELSE sum[k - 1] + subs[k].emitThrows IN
  sum[MaxSubs]

\* ------------------------------------------- B: the component with useRetry

\* the retry loop runs while i <= maxRetries
LoopContinues(i) == i <= maxRetries

\* a catch that never rethrows
RetryNeverExhausted(i) == i > maxRetries

\* a catch that rethrows one attempt early
RetryExhaustedEarly(i) == i = maxRetries - 1

\* retry's catch rethrows when i === maxRetries
RetryExhausted(i) == i = maxRetries

\* a wait that grows by one second per attempt
BackoffLinear(i) == 1000 * (i + 1)

\* the wait before the next attempt, in ms
BackoffDelay(i) == 1000 * (2 ^ i)

\* a last statement that sets the mode from the files created
GenerationModeToggled(filesCreated, mode) == filesCreated = 0

\* handleFileGeneration's last statement: files created end generation mode
GenerationModeAfter(filesCreated, mode) == IF filesCreated > 0 THEN FALSE ELSE mode
GenerationCompleteAfter(filesCreated, complete) ==
  IF filesCreated > 0 THEN TRUE ELSE complete

\* the files handleFileGeneration's loop creates: it breaks at once on a
\* cancelled token
FilesToCreate(codeBlocks, cancelled) == IF cancelled THEN 0 ELSE Len(codeBlocks)

\* a finally that leaves the loading flag alone
FinallyKeepsLoading ==
  /\ isLoading' = isLoading
  /\ currentStage' = <<>>
  /\ liveCoding' = [liveCoding EXCEPT !.isActive = FALSE]
  /\ cancelToken' = 0
  /\ abortControllerRef' = 0

\* the finally of handleAIResponse
FinallyB ==
  /\ isLoading' = FALSE
  /\ currentStage' = <<>>
  /\ liveCoding' = [liveCoding EXCEPT !.isActive = FALSE]
  /\ cancelToken' = 0
  /\ abortControllerRef' = 0

\* handleSubmit past its guard, then handleAIResponse up to the first fetch
StartB(message) ==
  LET s == nsubs + 1
      input == trim(message) IN
  /\ nsubs < MaxSubs
  /\ nsubs' = s
  /\ messages' = Append(messages, Msg(nextId, "user", "normal", input, s, 0))
  /\ nextId' = nextId + 1
  /\ isLoading' = TRUE
  /\ errorAlerts' = <<>>
  /\ abortControllerRef' = s
  /\ cancelToken' = s
  /\ retryCount' = 0
  /\ currentStage' = IF isCodeGenerationRequest(input) THEN generatingCode
                     ELSE currentStage
  /\ subs' = [subs EXCEPT ![s] =
                [EmptySub EXCEPT !.pc = "fetch", !.prompt = input,
                                 !.genBranch = isCodeGenerationRequest(input),
                                 !.calls = 1, !.afterGen = generationComplete]]
  /\ UNCHANGED <<component, isGenerationMode, generationComplete, liveCoding,
                 currentStageIndex, error, user, fileCalls, projects, pureVars>>

SubmitB(message) ==
  /\ component = "B"
  /\ CanSubmit(message, isLoading)
  /\ StartB(message)

\* the autoStartGeneration event (and the stored auto-start message): the
\* handleSubmit of the first render
AutoStartB(prompt) ==
  /\ component = "B"
  /\ prompt # <<>>
  /\ CanSubmit(prompt, FirstRenderIsLoading)
  /\ StartB(prompt)

\* the catch of handleAIResponse, and its finally
\* the values Date.now() can give for the error message of submission s: a
\* new one, or the one of the last message when another submission appended
\* it (in the same millisecond)
ErrorIds(s) ==
  { nextId } \cup { messages[k].id : k \in { j \in { Len(messages) } :
                                             messages[j].sub \notin { 0, s } } }

ErrorB(s, r, err) ==
  /\ \E errorId \in ErrorIds(s) :
       /\ errorAlerts' = Append(errorAlerts, errorId)
       /\ messages' = Append(messages, Msg(errorId, "ai", "error", <<err>>, s, 0))
       /\ nextId' = IF errorId = nextId THEN nextId + 1 ELSE nextId
  /\ FinallyB
  /\ subs' = [subs EXCEPT ![s] = [r EXCEPT !.pc = "done", !.errs = @ + 1]]
  /\ UNCHANGED <<isGenerationMode, generationComplete>>

WaitB(s, r) ==
  /\ subs' = [subs EXCEPT ![s] = [r EXCEPT !.pc = "backoff",
                                           !.waits = Append(@, BackoffDelay(r.i))]]
  /\ UNCHANGED <<messages, nextId, isLoading, currentStage, liveCoding, cancelToken,
                 abortControllerRef, errorAlerts, isGenerationMode,
                 generationComplete>>

\* fn threw err at retry index r.i
ThrowB(s, r, err) == IF RetryExhausted(r.i) THEN ErrorB(s, r, err) ELSE WaitB(s, r)

\* retry returned without a throw: the log line, then finally
ReturnB(s, r) ==
  /\ FinallyB
  /\ subs' = [subs EXCEPT ![s] = [r EXCEPT !.pc = "done"]]

FetchSettleB(s, outcome) ==
  /\ component = "B"
  /\ subs[s].pc = "fetch"
  /\ IF outcome = "ok"
     THEN /\ subs' = [subs EXCEPT ![s].pc = "json"]
          /\ UNCHANGED <<messages, nextId, isLoading, currentStage, liveCoding,
                         cancelToken, abortControllerRef, errorAlerts,
                         isGenerationMode, generationComplete, fileCalls>>
     ELSE /\ ThrowB(s, [subs[s] EXCEPT !.fails = @ + 1], outcome)
          /\ UNCHANGED fileCalls
  /\ UNCHANGED <<component, retryCount, currentStageIndex, error, user, nsubs,
                 projects, pureVars>>

\* handleFileGeneration after the body is parsed.  onFileGenerated is the
\* caller's function: it returns, or its call number `thrown` throws, and the
\* exception leaves handleFileGeneration for the retry loop
FileGenerationB(s, r, resp) ==
  LET aiResponse == ReplyText(resp)
      codeBlocks == extracted[aiResponse]
      n == FilesToCreate(codeBlocks, r.cancelled)
      calls == [k \in 1..n |->
                  [sub |-> s, index |-> k - 1, fileName |-> codeBlocks[k].fileName,
                   code |-> codeBlocks[k].code, language |-> codeBlocks[k].language]] IN
  \E thrown \in 0..(IF EmitThrows < MaxThrows THEN Min(n, MaxThrowAt) ELSE 0) :
    IF thrown = 0
    THEN /\ fileCalls' = fileCalls \o calls
         /\ messages' = Append(messages,
               Msg(nextId, "ai", IF Len(codeBlocks) > 0 THEN "code" ELSE "normal",
                   aiResponse, s, n))
         /\ nextId' = nextId + 1
         /\ generationComplete' = GenerationCompleteAfter(n, generationComplete)
         /\ isGenerationMode' = GenerationModeAfter(n, isGenerationMode)
         /\ ReturnB(s, [r EXCEPT !.resp = aiResponse, !.replies = @ + 1,
                                 !.emitted = @ + n, !.responded = TRUE])
         /\ UNCHANGED errorAlerts
    ELSE /\ fileCalls' = fileCalls \o SubSeq(calls, 1, thrown)
         /\ ThrowB(s, [r EXCEPT !.resp = aiResponse, !.fails = @ + 1,
                                !.emitted = @ + thrown, !.responded = TRUE,
                                !.emitThrows = @ + 1],
                   "emit")

\* handleChatResponse after the body is parsed
ChatResponseB(s, r, resp) ==
  /\ messages' = Append(messages, Msg(nextId, "ai", "normal", ReplyText(resp), s, 0))
  /\ nextId' = nextId + 1
  /\ ReturnB(s, [r EXCEPT !.resp = ReplyText(resp), !.replies = @ + 1,
                          !.responded = TRUE])
  /\ UNCHANGED <<errorAlerts, isGenerationMode, generationComplete, fileCalls>>

\* response.json() settles: body is "malformed" or the response field
JsonSettleB(s, body) ==
  /\ component = "B"
  /\ subs[s].pc = "json"
  /\ IF body = <<"malformed">>
     THEN /\ ThrowB(s, [subs[s] EXCEPT !.fails = @ + 1, !.malformed = TRUE],
                    "malformed")
          /\ UNCHANGED fileCalls
     ELSE IF subs[s].genBranch
          THEN FileGenerationB(s, subs[s], body)
          ELSE ChatResponseB(s, subs[s], body)
  /\ UNCHANGED <<component, retryCount, currentStageIndex, error, user, nsubs,
                 projects, pureVars>>

\* the backoff timer fires: the next round of the retry loop
BackoffFireB(s) ==
  LET r == [subs[s] EXCEPT !.i = @ + 1] IN
  /\ component = "B"
  /\ subs[s].pc = "backoff"
  /\ IF ~LoopContinues(r.i)
     THEN /\ ReturnB(s, r)
          /\ UNCHANGED <<retryCount, messages, nextId, errorAlerts, isGenerationMode,
                         generationComplete, fileCalls>>
     ELSE /\ retryCount' = r.i
          /\ IF r.cancelled
             THEN ThrowB(s, r, "cancelled") /\ UNCHANGED fileCalls
             ELSE /\ currentStage' = IF r.genBranch
                                     THEN generatingCode ELSE currentStage
                  /\ subs' = [subs EXCEPT ![s] = [r EXCEPT !.pc = "fetch",
                                                           !.calls = @ + 1]]
                  /\ UNCHANGED <<messages, nextId, isLoading, liveCoding, cancelToken,
                                 abortControllerRef, errorAlerts, isGenerationMode,
                                 generationComplete, fileCalls>>
  /\ UNCHANGED <<component, currentStageIndex, error, user, nsubs, projects,
                 pureVars>>

\* the Cancel button, shown while isLoading
cancelGeneration ==
  /\ component = "B"
  /\ isLoading
  /\ subs' = [s \in Subs |->
               [subs[s] EXCEPT !.cancelled = @ \/ cancelToken = s,
                               !.cancelSeen = @ \/ (InFlight(s) /\ ~subs[s].responded)]]
  /\ isLoading' = FALSE
  /\ currentStage' = <<>>
  /\ liveCoding' = [liveCoding EXCEPT !.isActive = FALSE]
  /\ UNCHANGED <<component, messages, nextId, isGenerationMode, generationComplete,
                 currentStageIndex, error, errorAlerts, cancelToken,
                 abortControllerRef, retryCount, user, nsubs, fileCalls, projects,
                 pureVars>>

\* the dismiss button of an error message
dismissError(errorId) ==
  /\ component = "B"
  /\ \E k \in 1..Len(messages) : messages[k].id = errorId /\ messages[k].type = "error"
  /\ errorAlerts' = SelectSeq(errorAlerts, LAMBDA id : id # errorId)
  /\ messages' = SelectSeq(messages, LAMBDA msg : msg.id # errorId)
  /\ UNCHANGED <<component, nextId, isLoading, isGenerationMode, generationComplete,
                 liveCoding, currentStageIndex, error, currentStage, cancelToken,
                 abortControllerRef, retryCount, user, subs, nsubs, fileCalls,
                 projects, pureVars>>

\* ------------------------------------------------ A: the staged component

\* makeAPICall's catch rethrows when attempt === retries
AttemptsExhausted(attempt) == attempt = retries

\* the wait before the next attempt, in ms
AttemptDelay(attempt) == 1000 * attempt

\* the scripted loop runs over every stage but the last (0-based i)
StageLoopContinues(i) == i < Len(GENERATION_STAGES) - 1

\* Math.round((i / length) * 100)
TypingProgress(i, length) == (200 * i + length) \div (2 * length)

\* a finally that leaves the stage pointer where it is
FinallyKeepsStage ==
  /\ isLoading' = FALSE
  /\ currentStageIndex' = currentStageIndex
  /\ liveCoding' = [liveCoding EXCEPT !.isActive = FALSE]

\* the finally of handleAIResponse
FinallyA ==
  /\ isLoading' = FALSE
  /\ currentStageIndex' = 0
  /\ liveCoding' = [liveCoding EXCEPT !.isActive = FALSE]

\* handleSubmit past its guard, then handleAIResponse up to its first await;
\* replayCut records, for the replays in flight, that a submission started
StartA(message, genBranch) ==
  LET s == nsubs + 1
      input == trim(message) IN
  /\ nsubs < MaxSubs
  /\ nsubs' = s
  /\ messages' = Append(messages, Msg(nextId, "user", "normal", input, s, 0))
  /\ nextId' = nextId + 1
  /\ isLoading' = TRUE
  /\ error' = "null"
  /\ currentStageIndex' = 0
  /\ subs' = [t \in Subs |->
                IF t # s
                THEN [subs[t] EXCEPT !.replayCut = @ \/ subs[t].pc = "typing"]
                ELSE IF genBranch
                THEN [EmptySub EXCEPT !.pc = "stage", !.prompt = input,
                                      !.genBranch = TRUE, !.stage = 0,
                                      !.afterGen = generationComplete]
                ELSE [EmptySub EXCEPT !.pc = "fetch", !.prompt = input,
                                      !.i = 1, !.calls = 1,
                                      !.afterGen = generationComplete]]
  /\ UNCHANGED <<component, isGenerationMode, generationComplete, liveCoding,
                 currentStage, errorAlerts, cancelToken, abortControllerRef,
                 retryCount, user, fileCalls, projects, pureVars>>

SubmitA(message) ==
  /\ component = "A"
  /\ CanSubmit(message, isLoading)
  /\ StartA(message, isGenerationMode /\ ~generationComplete)

\* the autoStartGeneration event: the handleSubmit, and through it the
\* handleAIResponse, of the first render
AutoStartA(prompt) ==
  /\ component = "A"
  /\ prompt # <<>>
  /\ CanSubmit(prompt, FirstRenderIsLoading)
  /\ StartA(prompt, FirstRenderGenerationBranch)

\* the 800 ms wait of a scripted stage ends
StageFireA(s) ==
  LET r == subs[s] IN
  /\ component = "A"
  /\ r.pc = "stage"
  /\ IF StageLoopContinues(r.stage + 1)
     THEN /\ currentStageIndex' = r.stage + 1
          /\ subs' = [subs EXCEPT ![s].stage = r.stage + 1]
          /\ UNCHANGED liveCoding
     ELSE /\ currentStageIndex' = Len(GENERATION_STAGES) - 1
          /\ liveCoding' = [liveCoding EXCEPT !.isActive = TRUE]
          /\ subs' = [subs EXCEPT ![s] = [r EXCEPT !.pc = "fetch", !.i = 1,
                                                   !.calls = @ + 1]]
  /\ UNCHANGED <<component, messages, nextId, isLoading, isGenerationMode,
                 generationComplete, error, currentStage, errorAlerts, cancelToken,
                 abortControllerRef, retryCount, user, nsubs, fileCalls, projects,
                 pureVars>>

\* the catch of handleAIResponse, and its finally
ErrorA(s, r, err) ==
  /\ error' = err
  /\ messages' = Append(messages, Msg(nextId, "ai", "error", <<err>>, s, 0))
  /\ nextId' = nextId + 1
  /\ FinallyA
  /\ subs' = [subs EXCEPT ![s] = [r EXCEPT !.pc = "done", !.errs = @ + 1]]
  /\ UNCHANGED <<isGenerationMode, generationComplete, fileCalls, projects>>

WaitA(s, r) ==
  /\ subs' = [subs EXCEPT ![s] = [r EXCEPT !.pc = "backoff",
                                           !.waits = Append(@, AttemptDelay(r.i))]]
  /\ UNCHANGED <<messages, nextId, isLoading, currentStageIndex, liveCoding, error,
                 isGenerationMode, generationComplete, fileCalls, projects>>

\* the fetch, the status check or response.json() threw at this attempt
ThrowA(s, r, err) == IF AttemptsExhausted(r.i) THEN ErrorA(s, r, err) ELSE WaitA(s, r)

FetchSettleA(s, outcome) ==
  /\ component = "A"
  /\ subs[s].pc = "fetch"
  /\ IF outcome = "ok"
     THEN /\ subs' = [subs EXCEPT ![s].pc = "json"]
          /\ UNCHANGED <<messages, nextId, isLoading, currentStageIndex, liveCoding,
                         error, isGenerationMode, generationComplete, fileCalls,
                         projects>>
     ELSE ThrowA(s, [subs[s] EXCEPT !.fails = @ + 1], outcome)
  /\ UNCHANGED <<component, currentStage, errorAlerts, cancelToken,
                 abortControllerRef, retryCount, user, nsubs, pureVars>>

BackoffFireA(s) ==
  /\ component = "A"
  /\ subs[s].pc = "backoff"
  /\ subs' = [subs EXCEPT ![s] = [@ EXCEPT !.pc = "fetch", !.i = @ + 1,
                                           !.calls = @ + 1]]
  /\ UNCHANGED <<component, messages, nextId, isLoading, isGenerationMode,
                 generationComplete, liveCoding, currentStageIndex, error,
                 currentStage, errorAlerts, cancelToken, abortControllerRef,
                 retryCount, user, nsubs, fileCalls, projects, pureVars>>

\* the completion message, then finally
CompleteA(s, r) ==
  /\ messages' = Append(messages,
        Msg(nextId, "ai", "analysis", <<"complete">>, s, Len(r.files)))
  /\ nextId' = nextId + 1
  /\ FinallyA
  /\ subs' = [subs EXCEPT ![s] = [r EXCEPT !.pc = "done", !.replies = @ + 1]]

\* processGeneratedFiles has returned: live coding ends, the mode flips,
\* saveProject runs
FinishGenerationA(s, r) ==
  /\ generationComplete' = TRUE
  /\ isGenerationMode' = FALSE
  /\ IF user /\ Len(r.files) > 0
     THEN /\ liveCoding' = [liveCoding EXCEPT !.isActive = FALSE]
          /\ projects' = Append(projects,
                                [sub |-> s, files |-> { r.files[k] : k \in 1..Len(r.files) }])
          /\ subs' = [subs EXCEPT ![s] = [r EXCEPT !.pc = "save"]]
          /\ UNCHANGED <<messages, nextId, isLoading, currentStageIndex>>
     ELSE /\ CompleteA(s, r)
          /\ UNCHANGED projects
  /\ UNCHANGED <<error, fileCalls>>

\* processGeneratedFiles takes block k (1-based): onFileGenerated, then the
\* first chunk of simulateTyping
BeginBlockA(s, r, k) ==
  LET block == r.codeBlocks[k]
      length == Len(block.code) IN
  /\ fileCalls' = Append(fileCalls,
        [sub |-> s, index |-> k - 1, fileName |-> block.fileName,
         code |-> block.code, language |-> block.language])
  /\ IF length > 0
     THEN /\ liveCoding' =
               [fileName |-> block.fileName,
                content |-> SubSeq(block.code, 1, Min(CHUNK_SIZE, length)),
                language |-> block.language,
                progress |-> TypingProgress(0, length),
                isActive |-> TRUE]
          /\ subs' = [subs EXCEPT ![s] =
                [r EXCEPT !.pc = "typing", !.blk = k, !.off = CHUNK_SIZE,
                          !.replayCut = FALSE,
                          !.files = Append(@, block.fileName), !.emitted = @ + 1]]
     ELSE /\ UNCHANGED liveCoding
          /\ subs' = [subs EXCEPT ![s] =
                [r EXCEPT !.pc = "pause", !.blk = k,
                          !.files = Append(@, block.fileName), !.emitted = @ + 1]]
  /\ UNCHANGED <<messages, nextId, isLoading, currentStageIndex, error,
                 isGenerationMode, generationComplete, projects>>

\* response.json() settles: body is "malformed" or the response field
JsonSettleA(s, body) ==
  LET r == [subs[s] EXCEPT !.resp = ReplyText(body), !.responded = TRUE]
      g == [r EXCEPT !.codeBlocks = extracted[r.resp]] IN
  /\ component = "A"
  /\ subs[s].pc = "json"
  /\ IF body = <<"malformed">>
     THEN ThrowA(s, [subs[s] EXCEPT !.fails = @ + 1, !.malformed = TRUE], "malformed")
     ELSE IF r.genBranch
          THEN IF Len(g.codeBlocks) = 0
               THEN FinishGenerationA(s, g)
               ELSE BeginBlockA(s, g, 1)
          ELSE /\ messages' = Append(messages,
                     Msg(nextId, "ai", "normal", body, s, 0))
               /\ nextId' = nextId + 1
               /\ FinallyA
               /\ subs' = [subs EXCEPT ![s] = [r EXCEPT !.resp = body, !.pc = "done",
                                                        !.replies = @ + 1]]
               /\ UNCHANGED <<error, isGenerationMode, generationComplete, fileCalls,
                              projects>>
  /\ UNCHANGED <<component, currentStage, errorAlerts, cancelToken,
                 abortControllerRef, retryCount, user, nsubs, pureVars>>

\* the 8 ms wait of simulateTyping ends: the next chunk, or the 100 ms pause
TypingFireA(s) ==
  LET r == subs[s]
      block == r.codeBlocks[r.blk]
      length == Len(block.code) IN
  /\ component = "A"
  /\ r.pc = "typing"
  /\ IF r.off < length
     THEN /\ liveCoding' =
               [fileName |-> block.fileName,
                content |-> SubSeq(block.code, 1, Min(r.off + CHUNK_SIZE, length)),
                language |-> block.language,
                progress |-> TypingProgress(r.off, length),
                isActive |-> TRUE]
          /\ subs' = [subs EXCEPT ![s].off = r.off + CHUNK_SIZE]
     ELSE /\ UNCHANGED liveCoding
          /\ subs' = [subs EXCEPT ![s].pc = "pause"]
  /\ UNCHANGED <<component, messages, nextId, isLoading, isGenerationMode,
                 generationComplete, currentStageIndex, error, currentStage,
                 errorAlerts, cancelToken, abortControllerRef, retryCount, user, nsubs,
                 fileCalls, projects, pureVars>>

\* the 100 ms pause after a file ends: the next block, or the end
PauseFireA(s) ==
  LET r == subs[s] IN
  /\ component = "A"
  /\ r.pc = "pause"
  /\ IF r.blk < Len(r.codeBlocks)
     THEN BeginBlockA(s, r, r.blk + 1)
     ELSE FinishGenerationA(s, r)
  /\ UNCHANGED <<component, currentStage, errorAlerts, cancelToken,
                 abortControllerRef, retryCount, user, nsubs, pureVars>>

\* createProject settles; saveProject catches its failure and logs it
SaveSettleA(s, saved) ==
  /\ component = "A"
  /\ subs[s].pc = "save"
  /\ CompleteA(s, [subs[s] EXCEPT !.saveLogged = IF saved THEN "success" ELSE "error"])
  /\ UNCHANGED <<component, isGenerationMode, generationComplete, error,
                 currentStage, errorAlerts, cancelToken, abortControllerRef,
                 retryCount, user, nsubs, fileCalls, projects, pureVars>>

\* the Dismiss button of the error banner: setError(null)
DismissA ==
  /\ component = "A"
  /\ error # "null"
  /\ error' = "null"
  /\ UNCHANGED <<component, messages, nextId, isLoading, isGenerationMode,
                 generationComplete, liveCoding, currentStageIndex, currentStage,
                 errorAlerts, cancelToken, abortControllerRef, retryCount, user, subs,
                 nsubs, fileCalls, projects, pureVars>>

\* ------------------------------------------------------ the specification

\* the file-name and typing specifications at rest
NoNameInput == [pad |-> 0, first |-> <<>>, second |-> <<>>, index |-> 0]
NoReplay ==
  [pc |-> "off", variant |-> "A", code |-> <<>>, i |-> 0, currentContent |-> <<>>,
   log |-> <<>>]

FetchOutcomes == { "ok", "status", "reject" }

Bodies == Responses \cup { <<"malformed">> }

Init ==
  /\ component \in { "A", "B" }
  /\ messages = <<Msg(1, "ai", IF component = "A" THEN "normal" ELSE "system",
                      <<"welcome">>, 0, 0)>>
  /\ nextId = 2
  /\ isLoading = FALSE
  /\ isGenerationMode = TRUE
  /\ generationComplete = FALSE
  /\ liveCoding = [fileName |-> <<>>, content |-> <<>>, isActive |-> FALSE,
                   language |-> <<>>, progress |-> 0]
  /\ currentStageIndex = 0
  /\ error = "null"
  /\ currentStage = <<>>
  /\ errorAlerts = <<>>
  /\ cancelToken = 0
  /\ abortControllerRef = 0
  /\ retryCount = 0
  /\ user \in IF component = "A" THEN BOOLEAN ELSE { TRUE }
  /\ subs = [s \in Subs |-> EmptySub]
  /\ nsubs = 0
  /\ fileCalls = <<>>
  /\ projects = <<>>
  /\ extracted = ExtractedBlocks[component]
  /\ parts = <<>>
  /\ text = <<>>
  /\ blocks = <<>>
  /\ xpc = "off"
  /\ nameInput = NoNameInput
  /\ nameCalls = <<>>
  /\ replay = NoReplay

\* the steps of submission s that a timer or the network takes
ContinueA(s) ==
  \/ StageFireA(s)
  \/ \E outcome \in FetchOutcomes : FetchSettleA(s, outcome)
  \/ \E body \in Bodies : JsonSettleA(s, body)
  \/ BackoffFireA(s)
  \/ TypingFireA(s)
  \/ PauseFireA(s)
  \/ \E saved \in BOOLEAN : SaveSettleA(s, saved)

ContinueB(s) ==
  \/ \E outcome \in FetchOutcomes : FetchSettleB(s, outcome)
  \/ \E body \in Bodies : JsonSettleB(s, body)
  \/ BackoffFireB(s)

Next ==
  \/ \E message \in Prompts : SubmitA(message)
  \/ \E prompt \in Prompts : AutoStartA(prompt)
  \/ \E s \in Subs : ContinueA(s)
  \/ DismissA
  \/ \E message \in Prompts : SubmitB(message)
  \/ \E prompt \in Prompts : AutoStartB(prompt)
  \/ \E s \in Subs : ContinueB(s)
  \/ cancelGeneration
  \/ \E k \in 1..Len(messages) : dismissError(messages[k].id)

Spec == Init /\ [][Next]_vars

\* ------------------------------------------- the extraction on its own

Fence == <<"BT", "BT", "BT">>

\* a response text is put together from parts: a gap (text without a fence), a
\* block (opening fence, tag, newline, body, closing fence), or, last of the
\* fenced parts, an opener that is never closed
GapTexts == { <<"x">>, <<"NL">>, <<"BT">> }
Tags == { <<>>, <<"j", "s">>, <<"c", "+">> }
BlockBodies == { <<>>, <<"a">>, <<"NL", "b", "SP">>, <<"b", "o", "d", "y", "SP", "{">> }

Part ==
  [kind : { "gap" }, tag : { <<>> }, body : GapTexts]
    \cup [kind : { "block" }, tag : Tags, body : BlockBodies]
    \cup [kind : { "open" }, tag : { <<>>, <<"j", "s">> }, body : { <<"a">> }]

PartText(part) ==
  CASE part.kind = "gap" -> part.body
    [] part.kind = "block" -> Fence \o part.tag \o <<"NL">> \o part.body \o Fence
    [] part.kind = "open" -> Fence \o part.tag \o <<"NL">> \o part.body

RECURSIVE Flatten(_)
Flatten(ps) == IF ps = <<>> THEN <<>> ELSE PartText(Head(ps)) \o Flatten(Tail(ps))

\* no fenced part follows an opener that is never closed
OpenerLast(ps) ==
  \A j \in 1..Len(ps) : \A k \in 1..Len(ps) :
     (ps[j].kind = "open" /\ j < k) => ps[k].kind = "gap"

PartSeqs == UNION { [1..n -> Part] : n \in 0..MaxParts }

InitExtract ==
  /\ component = "X"
  /\ messages = <<>>
  /\ nextId = 2
  /\ isLoading = FALSE
  /\ isGenerationMode = TRUE
  /\ generationComplete = FALSE
  /\ liveCoding = [fileName |-> <<>>, content |-> <<>>, isActive |-> FALSE,
                   language |-> <<>>, progress |-> 0]
  /\ currentStageIndex = 0
  /\ error = "null"
  /\ currentStage = <<>>
  /\ errorAlerts = <<>>
  /\ cancelToken = 0
  /\ abortControllerRef = 0
  /\ retryCount = 0
  /\ user = FALSE
  /\ subs = [s \in Subs |-> EmptySub]
  /\ nsubs = 0
  /\ fileCalls = <<>>
  /\ projects = <<>>
  /\ extracted = <<>>
  /\ parts \in { ps \in PartSeqs : OpenerLast(ps) }
  /\ text = Flatten(parts)
  /\ blocks = <<>>
  /\ xpc = "text"
  /\ nameInput = NoNameInput
  /\ nameCalls = <<>>
  /\ replay = NoReplay

\* parseCodeBlocks on the text
ParseText ==
  /\ xpc = "text"
  /\ blocks' = parseCodeBlocks(text)
  /\ xpc' = "parsed"
  /\ UNCHANGED <<sessionVars, extracted, parts, text, nameVars, typingVars>>

\* handleFileGeneration's extraction on the text
MatchText ==
  /\ xpc = "text"
  /\ blocks' = fileBlocks(text)
  /\ xpc' = "matched"
  /\ UNCHANGED <<sessionVars, extracted, parts, text, nameVars, typingVars>>

NextExtract == ParseText \/ MatchText

ExtractSpec == InitExtract /\ [][NextExtract]_vars

\* every pending timer fires and every pending network call settles
\* ------------------------------------------- the file-name inference on its own

\* Lines before the chosen ones.
MaxPad == 5

\* The largest position of a block among the extracted blocks.
MaxIndex == 1

\* Calls of generateFileName on one input.
MaxCalls == 2

\* the lines a code block is put together from, and the name of the
\* filename comment
Line ==
  [filename |-> <<"/", "/", "SP", "f", "i", "l", "e", "n", "a", "m", "e", ":", "SP",
                  "f", "o", "o", ".", "p", "y">>,
   doctype |-> <<"<", "!", "D", "O", "C", "T", "Y", "P", "E", "SP", "h", "t", "m",
                 "l", ">">>,
   link |-> <<"<", "l", "i", "n", "k", "SP", "h", "r", "e", "f", "=", "QT", "h",
              "t", "t", "p", "s", ":", "/", "/", "a", ".", "i", "o", "/", "x",
              "QT", ">">>,
   body |-> <<"b", "o", "d", "y", "SP", "{", "SP", "m", "a", "r", "g", "i", "n",
              ":", "SP", "0", "SP", "}">>,
   selector |-> <<"#", "m", "a", "i", "n", ".", "a", "c", "t", "i", "v", "e", "SP",
                  "{", "SP", "}">>,
   require |-> <<"l", "e", "t", "SP", "p", "SP", "=", "SP", "'", "p", "a", "c", "k",
                 "a", "g", "e", ".", "j", "s", "o", "n", "'">>,
   class |-> <<"c", "l", "a", "s", "s", "SP", "A", "SP", "{", "SP", "c", "o", "n",
               "s", "t", "r", "u", "c", "t", "o", "r", "(", ")", "SP", "{", "}",
               "SP", "}">>,
   express |-> <<"c", "o", "n", "s", "t", "SP", "e", "x", "p", "r", "e", "s", "s",
                 "SP", "=", "SP", "1">>,
   manifest |-> <<"{", "SP", "QT", "n", "a", "m", "e", "QT", ":", "SP", "1", ",",
                  "SP", "QT", "v", "e", "r", "s", "i", "o", "n", "QT", ":", "SP",
                  "2", "SP", "}">>,
   hello |-> <<"h", "e", "l", "l", "o">>,
   function |-> <<"f", "u", "n", "c", "t", "i", "o", "n", "SP", "f", "(", ")", "SP",
                  "{", "}">>,
   pad |-> <<"x">>,
   fooPy |-> <<"f", "o", "o", ".", "p", "y">>]

\* the lines without a comment marker
PlainLines ==
  { Line.doctype, Line.body, Line.require, Line.class, Line.express, Line.manifest,
    Line.hello, Line.function }

NameLines == PlainLines \cup { Line.filename, Line.link, Line.selector }

\* the code block of the input: pad lines, the first line, the second if any
RECURSIVE JoinLines(_)
JoinLines(ls) ==
  IF ls = <<>> THEN <<>>
  ELSE IF Len(ls) = 1 THEN ls[1]
  ELSE ls[1] \o <<"NL">> \o JoinLines(Tail(ls))

NameBlockLines ==
  [k \in 1..nameInput.pad |-> Line.pad] \o <<nameInput.first>>
    \o (IF nameInput.second = <<>> THEN <<>> ELSE <<nameInput.second>>)

NameBlock == JoinLines(NameBlockLines)

\* every session variable at rest, for the specifications of one function
SessionOff(c) ==
  /\ component = c
  /\ messages = <<>>
  /\ nextId = 2
  /\ isLoading = FALSE
  /\ isGenerationMode = TRUE
  /\ generationComplete = FALSE
  /\ liveCoding = [fileName |-> <<>>, content |-> <<>>, isActive |-> FALSE,
                   language |-> <<>>, progress |-> 0]
  /\ currentStageIndex = 0
  /\ error = "null"
  /\ currentStage = <<>>
  /\ errorAlerts = <<>>
  /\ cancelToken = 0
  /\ abortControllerRef = 0
  /\ retryCount = 0
  /\ user = FALSE
  /\ subs = [s \in Subs |-> EmptySub]
  /\ nsubs = 0
  /\ fileCalls = <<>>
  /\ projects = <<>>

InitName ==
  /\ SessionOff("N")
  /\ extracted = <<>>
  /\ parts = <<>>
  /\ text = <<>>
  /\ blocks = <<>>
  /\ xpc = "off"
  /\ nameInput \in [pad : 0..MaxPad, first : NameLines \cup { <<>> },
                     second : NameLines \cup { <<>> }, index : 0..MaxIndex]
  /\ nameCalls = <<>>
  /\ replay = NoReplay

\* handleFileGeneration names a block
CallGenerateFileName ==
  /\ component = "N"
  /\ Len(nameCalls) < MaxCalls
  /\ nameCalls' = Append(nameCalls,
        [content |-> NameBlock, index |-> nameInput.index,
         name |-> generateFileName(NameBlock, nameInput.index)])
  /\ UNCHANGED <<sessionVars, extractVars, nameInput, typingVars>>

NextName == CallGenerateFileName

NameSpec == InitName /\ [][NextName]_vars

\* ------------------------------------------------- the typing replay on its own

\* The longest replayed text.
MaxCode == 45

\* part_001's simulateTyping: i += 20, slice(i, i + 20)
TYPING_CHUNK == 20

\* the chunk of one write, in either component
ChunkOf(variant) == IF variant = "A" THEN CHUNK_SIZE ELSE TYPING_CHUNK

\* a text of n characters, each one its own (the k-th has character code k)
CodeOf(n) == [k \in 1..n |-> k]

\* what the buffer holds when an earlier file was replayed
EarlierContent == <<0>>

\* chunks.slice(start, end)
slice(chunks, start, end) == SubSeq(chunks, start + 1, Min(end, Len(chunks)))

\* the progress of one write as a fraction num / den of 100 percent points:
\* part_000 rounds it, part_001 keeps (i / length) * 100, which is below 100
\* as i < length, so Math.min returns it
ProgressOf(variant, i, length) ==
  IF variant = "A" THEN [num |-> TypingProgress(i, length), den |-> 1]
  ELSE [num |-> 100 * i, den |-> length]

InitTyping ==
  /\ SessionOff("T")
  /\ extracted = <<>>
  /\ parts = <<>>
  /\ text = <<>>
  /\ blocks = <<>>
  /\ xpc = "off"
  /\ nameInput = NoNameInput
  /\ nameCalls = <<>>
  /\ \E variant \in { "A", "B" } : \E n \in 0..MaxCode :
       replay = [pc |-> "ready", variant |-> variant, code |-> CodeOf(n),
                 i |-> 0, currentContent |-> <<>>, log |-> <<>>]

\* processGeneratedFiles replayed an earlier block before this call: the buffer
\* holds that file
ShowEarlierFile ==
  /\ component = "T"
  /\ replay.pc = "ready"
  /\ ~liveCoding.isActive
  /\ liveCoding' = [liveCoding EXCEPT !.content = EarlierContent, !.isActive = TRUE]
  /\ UNCHANGED <<component, messages, nextId, isLoading, isGenerationMode,
                 generationComplete, currentStageIndex, error, currentStage,
                 errorAlerts, cancelToken, abortControllerRef, retryCount, user,
                 subs, nsubs, fileCalls, projects, extractVars, nameVars, replay>>

\* simulateTyping up to its loop: part_001 clears the buffer first
StartTyping ==
  /\ component = "T"
  /\ replay.pc = "ready"
  /\ replay' = [replay EXCEPT !.pc = "typing"]
  /\ liveCoding' =
       IF replay.variant = "A" THEN liveCoding
       ELSE [liveCoding EXCEPT !.fileName = FileNames.indexHtml, !.language = TextLanguage,
                               !.isActive = TRUE, !.content = <<>>]
  /\ UNCHANGED <<component, messages, nextId, isLoading, isGenerationMode,
                 generationComplete, currentStageIndex, error, currentStage,
                 errorAlerts, cancelToken, abortControllerRef, retryCount, user,
                 subs, nsubs, fileCalls, projects, extractVars, nameVars>>

\* one pass of the loop: the next chunk and its progress are written
TypeChunk ==
  LET length == Len(replay.code)
      chunk == ChunkOf(replay.variant)
      progress == ProgressOf(replay.variant, replay.i, length)
      currentContent == replay.currentContent
                          \o slice(replay.code, replay.i, replay.i + chunk) IN
  /\ component = "T"
  /\ replay.pc = "typing"
  /\ replay.i < length
  /\ liveCoding' =
       IF replay.variant = "A"
       THEN [fileName |-> FileNames.indexHtml, content |-> currentContent,
             language |-> TextLanguage, progress |-> progress.num,
             isActive |-> TRUE]
       ELSE [liveCoding EXCEPT !.content = currentContent, !.progress = progress]
  /\ replay' = [replay EXCEPT !.i = replay.i + chunk,
                              !.currentContent = currentContent,
                              !.log = Append(replay.log, progress)]
  /\ UNCHANGED <<component, messages, nextId, isLoading, isGenerationMode,
                 generationComplete, currentStageIndex, error, currentStage,
                 errorAlerts, cancelToken, abortControllerRef, retryCount, user,
                 subs, nsubs, fileCalls, projects, extractVars, nameVars>>

\* the loop ends and simulateTyping returns
EndTyping ==
  /\ component = "T"
  /\ replay.pc = "typing"
  /\ replay.i >= Len(replay.code)
  /\ replay' = [replay EXCEPT !.pc = "done"]
  /\ UNCHANGED <<sessionVars, extractVars, nameVars>>

NextTyping == ShowEarlierFile \/ StartTyping \/ TypeChunk \/ EndTyping

TypingSpec == InitTyping /\ [][NextTyping]_vars

FairSpec == Spec /\ \A s \in Subs : WF_vars(ContinueA(s)) /\ WF_vars(ContinueB(s))

\* ------------------------------------------------------------- the claims

\* the attempts one submission's network call is given
Budget == IF component = "A" THEN retries ELSE maxRetries + 1

\* isLoading false, stage cleared, live coding inactive
SessionIdle ==
  /\ ~isLoading
  /\ ~liveCoding.isActive
  /\ IF component = "A" THEN currentStageIndex = 0 ELSE currentStage = <<>>

\* the blocks a submission's response holds for its component
BlocksOf(s) ==
  IF component = "A" THEN Len(parseCodeBlocks(subs[s].resp))
  ELSE Len(matchCodeBlocks(subs[s].resp))

\* whether the submission took the file-generation branch
Generates(s) == subs[s].genBranch

\* C1: at most one submission is in flight at any time (a submission is not
\* accepted while another one's network call, retry wait or file emission is
\* pending).
C1_OneSubmissionInFlight == Cardinality({ s \in Subs : InFlight(s) }) <= 1

\* C2: once a submission's token is cancelled, no later step of that submission
\* changes the message log, the onFileGenerated calls, the mode flags, the
\* loading flag, the stage or the cancel token.
C2_NoLateMutation ==
  [][\A s \in Subs :
       (subs[s].cancelled /\ ContinueB(s)) =>
         UNCHANGED <<messages, fileCalls, isGenerationMode, generationComplete,
                     isLoading, currentStage, cancelToken>>]_vars

\* C3: once generation mode is off it is never on again, and once generation
\* is complete it stays complete.
C3_ModeMonotonic ==
  [][(~isGenerationMode => ~isGenerationMode')
     /\ (generationComplete => generationComplete')]_vars

\* C3's case: generation is complete, chat mode is on, and a submission
\* accepted after that has finished.
C3_Witness ==
  /\ generationComplete /\ ~isGenerationMode
  /\ \E s \in Subs : subs[s].afterGen /\ subs[s].pc = "done"

\* C4: a submission accepted after a completed generation is handled as chat:
\* it takes no file-generation branch, calls onFileGenerated never, and when
\* it ends without an error it has appended exactly one message.
C4_ChatAfterGeneration ==
  \A s \in Subs :
    subs[s].afterGen =>
      /\ ~Generates(s)
      /\ subs[s].emitted = 0
      /\ (subs[s].pc = "done" /\ subs[s].errs = 0) => subs[s].replies = 1

\* C5: a submission whose every attempt of the budget failed with a transport
\* error has ended, has appended exactly one error message and has made no
\* onFileGenerated call.
C5_ExhaustedRetriesOneError ==
  \A s \in Subs :
    (subs[s].fails = Budget /\ subs[s].emitThrows = 0 /\ ~subs[s].malformed) =>
      /\ subs[s].pc = "done"
      /\ subs[s].errs = 1
      /\ subs[s].replies = 0
      /\ subs[s].emitted = 0
      /\ Cardinality({ k \in 1..Len(fileCalls) : fileCalls[k].sub = s }) = 0

\* C5's case: in the component with useRetry, all four attempts failed with a
\* transport error and the error message is in the log.
C5_Witness ==
  \E s \in Subs :
    /\ component = "B"
    /\ subs[s].fails = maxRetries + 1 /\ ~subs[s].malformed /\ subs[s].calls = maxRetries + 1
    /\ subs[s].emitThrows = 0
    /\ \E k \in 1..Len(messages) : messages[k].sub = s /\ messages[k].type = "error"

\* C6: an uncancelled submission is given every attempt of its budget before
\* an error message is appended; and a submission whose attempts all failed but
\* the last of the budget, which succeeded, has appended its response message,
\* no error message, and (unless cancelled) has emitted every block.
C6_LastAttemptSucceeds ==
  \A s \in Subs :
    /\ (subs[s].errs > 0 /\ ~subs[s].cancelled) => subs[s].fails = Budget
    /\ (/\ subs[s].pc = "done" /\ subs[s].responded
        /\ subs[s].fails = Budget - 1 /\ subs[s].emitThrows = 0) =>
         /\ subs[s].errs = 0
         /\ subs[s].replies = 1
         /\ ~subs[s].cancelled =>
              subs[s].emitted = IF Generates(s) THEN BlocksOf(s) ELSE 0

\* C6's case: three failed attempts, then the fourth succeeded and files were
\* emitted.
C6_Witness ==
  \E s \in Subs :
    /\ component = "B"
    /\ subs[s].pc = "done" /\ subs[s].responded /\ subs[s].fails = maxRetries
    /\ subs[s].emitted = 2 /\ subs[s].errs = 0 /\ subs[s].emitThrows = 0

\* C7: a malformed body is not retried: the submission has ended with its error
\* message, having issued the network call once.
C7_MalformedNotRetried ==
  \A s \in Subs :
    subs[s].malformed =>
      subs[s].pc = "done" /\ subs[s].errs = 1 /\ subs[s].calls = 1

\* C8: a cancelled submission appends no error message and raises no error
\* alert.
C8_CancelIsSilent ==
  \A s \in Subs :
    subs[s].cancelled =>
      /\ subs[s].errs = 0
      /\ \A k \in 1..Len(messages) :
           messages[k].sub = s => messages[k].type # "error"

\* C9: every accepted submission ends, and at its end the session is idle.
C9_EventuallyIdle ==
  \A s \in Subs : InFlight(s) ~> (subs[s].pc = "done" /\ SessionIdle)

\* C9's case: a submission ended on the failure path and the session is idle.
C9_Witness ==
  \E s \in Subs : subs[s].pc = "done" /\ subs[s].errs = 1 /\ SessionIdle

\* the fenced blocks the text was put together from
BlockParts == SelectSeq(parts, LAMBDA part : part.kind = "block")

\* C10: the extraction yields exactly the blocks the text holds, in the order
\* of the text (an opener that is never closed yields none).
C10_ExtractsEveryBlock ==
  xpc \in { "parsed", "matched" } =>
    /\ Len(blocks) = Len(BlockParts)
    /\ \A k \in 1..Len(blocks) : trim(blocks[k].code) = trim(BlockParts[k].body)

\* every tag of the text's blocks is made of word characters, so that the
\* regular expression matches each block
WordTagged ==
  \A j \in 1..Len(parts) :
    parts[j].kind = "block" => \A k \in 1..Len(parts[j].tag) : IsWord(parts[j].tag[k])

\* C11: the code of every extracted block is the text between its fences with
\* leading and trailing whitespace removed, and its language is the tag after
\* the opening fence, or "text" when there is none.
C11_CodeTrimmedLanguageTagged ==
  (xpc \in { "parsed", "matched" } /\ WordTagged) =>
    /\ Len(blocks) = Len(BlockParts)
    /\ \A k \in 1..Len(blocks) :
         /\ blocks[k].code = trim(BlockParts[k].body)
         /\ blocks[k].language =
              IF BlockParts[k].tag # <<>> THEN BlockParts[k].tag ELSE TextLanguage

\* the line of the block (1-based) that is the filename comment, 0 when none
FilenameCommentLine ==
  IF nameInput.first = Line.filename THEN nameInput.pad + 1
  ELSE IF nameInput.second = Line.filename THEN nameInput.pad + 2
  ELSE 0

\* C12: a block with the comment "// filename: foo.py" among its first 5 lines
\* is named foo.py whatever else it contains; a filename comment on line 6 or
\* later does not name it.
C12_FilenameCommentWins ==
  \A k \in 1..Len(nameCalls) :
    /\ FilenameCommentLine \in 1..5 => nameCalls[k].name = Line.fooPy
    /\ FilenameCommentLine > 5 => nameCalls[k].name # Line.fooPy

\* C13: a block with an HTML doctype and no filename comment is named
\* index.html, whatever "//", "#" or "<!--" its first lines hold in URLs or
\* selectors.
C13_HtmlIsIndex ==
  \A k \in 1..Len(nameCalls) :
    (Line.doctype \in { nameInput.first, nameInput.second } /\ FilenameCommentLine = 0)
      => nameCalls[k].name = FileNames.indexHtml

C15_RuleListOrder ==
  \A k \in 1..Len(nameCalls) :
    LET c == nameCalls[k].content
        n == nameCalls[k].index
        ruled ==
          IF includes(c, Signatures.doctype) \/ includes(c, Signatures.html) THEN FileNames.indexHtml
          ELSE IF includes(c, Signatures.name) /\ includes(c, Signatures.version) THEN FileNames.packageJson
          ELSE IF includes(c, Signatures.body) \/ includes(c, Signatures.media) \/ includes(c, Signatures.font)
               THEN FileNames.styleCss
          ELSE IF includes(c, Signatures.express) \/ includes(c, Signatures.listen) THEN FileNames.serverJs
          ELSE IF includes(c, Signatures.class) /\ includes(c, Signatures.constructor) THEN FileNames.appJs
          ELSE IF includes(c, Signatures.function) \/ includes(c, Signatures.const) \/ includes(c, Signatures.let)
               THEN FileNames.script \o NumberText(n + 1) \o FileNames.js
          ELSE FileNames.file \o NumberText(n + 1) \o FileNames.txt IN
    ({ nameInput.first, nameInput.second } \subseteq PlainLines \cup { <<>> })
      => nameCalls[k].name = ruled

\* the progress reports of the replay in order, each at most the next
ProgressMonotone ==
  \A k \in 1..(Len(replay.log) - 1) :
    replay.log[k].num * replay.log[k + 1].den
      <= replay.log[k + 1].num * replay.log[k].den

\* the last report of the replay is 100
ReportedComplete ==
  /\ replay.log # <<>>
  /\ replay.log[Len(replay.log)].num = 100 * replay.log[Len(replay.log)].den

\* C16: within one replay the reported progress never decreases; when the
\* replay of a text has completed the last progress reported is exactly 100,
\* and for the empty text that report comes with an empty buffer.
C16_ProgressReaches100 ==
  /\ ProgressMonotone
  /\ replay.pc = "done" => ReportedComplete
  /\ (replay.pc = "done" /\ replay.code = <<>>) => liveCoding.content = <<>>

\* the replay of submission s is in flight and was cancelled: by
\* cancelGeneration, or by a submission that started after it
ReplayCancelled(s) ==
  /\ subs[s].pc = "typing"
  /\ subs[s].cancelled \/ subs[s].replayCut

\* C17: a step of a typing replay that was cancelled, by cancelGeneration or by
\* a later submission's start, leaves the content of the live-coding buffer
\* as it was.
C17_NoWriteAfterCancel ==
  [][\A s \in Subs :
       (ReplayCancelled(s) /\ subs'[s] # subs[s])
         => liveCoding'.content = liveCoding.content]_vars

\* the backend call of submission s is pending: the fetch, the reading of its
\* body, or the wait before the next attempt
CallPending(s) == subs[s].pc \in { "fetch", "json", "backoff" }

\* C18: when the first request of a generation submission is issued, the
\* scripted stage playback of that submission still has a stage to play.
C18_RequestNotDelayed ==
  [][\A s \in Subs :
       (subs'[s].genBranch /\ subs[s].calls = 0 /\ subs'[s].calls > 0)
         => StageLoopContinues(subs'[s].stage + 1)]_vars

\* C19: while the backend call of a generation submission is pending, the
\* stage displayed is not the final stage of the catalog (progress 100).
C19_FinalStageAfterReturn ==
  \A s \in Subs :
    (subs[s].genBranch /\ CallPending(s))
      => GENERATION_STAGES[currentStageIndex + 1] # 100

\* C20: the step that handles the failure of a submission leaves isLoading
\* false, the stage pointer at its initial value (index 0, empty stage text)
\* and live coding inactive.
C20_FailureResetsStage ==
  [][\A s \in Subs :
       subs'[s].errs > subs[s].errs
         => /\ ~isLoading'
            /\ currentStageIndex' = 0
            /\ currentStage' = <<>>
            /\ ~liveCoding'.isActive]_vars

\* C20's case: a generation submission of the staged component whose requests
\* all failed, after its error was handled.
C20_Witness ==
  \E s \in Subs :
    /\ component = "A"
    /\ subs[s].genBranch
    /\ subs[s].pc = "done"
    /\ subs[s].errs = 1
    /\ subs[s].fails = retries
    /\ currentStageIndex = 0
    /\ ~isLoading

\* the calls of onFileGenerated made for submission s, in order
CallsOf(s) == SelectSeq(fileCalls, LAMBDA c : c.sub = s)

\* submission s took the generation branch, was not cancelled, and ended
\* without an error message
GeneratedOk(s) ==
  /\ subs[s].genBranch
  /\ subs[s].pc = "done"
  /\ subs[s].responded
  /\ subs[s].errs = 0
  /\ ~subs[s].cancelled

\* C21: a generation submission that ended well, uncancelled, on a response
\* with N extracted blocks has made exactly N calls of onFileGenerated, the
\* i-th with the i-th block's file name, code and language.
C21_OneCallPerBlock ==
  \A s \in Subs :
    GeneratedOk(s) =>
      LET codeBlocks == extracted[subs[s].resp] IN
      CallsOf(s) =
        [k \in 1..Len(codeBlocks) |->
           [sub |-> s, index |-> k - 1, fileName |-> codeBlocks[k].fileName,
            code |-> codeBlocks[k].code, language |-> codeBlocks[k].language]]

\* C22: once the response of a submission has been received, no step issues
\* another request for it, and no block of it is emitted a second time.
C22_NoRetryAfterResponse ==
  [][\A s \in Subs :
       /\ subs[s].responded => subs'[s].calls = subs[s].calls
       /\ \A j \in 1..Len(fileCalls') : \A k \in 1..Len(fileCalls') :
            (fileCalls'[j].sub = s /\ fileCalls'[k].sub = s
               /\ fileCalls'[j].index = fileCalls'[k].index) => j = k]_vars

\* the calls of createProject made for submission s
SavesOf(s) == SelectSeq(projects, LAMBDA p : p.sub = s)

\* the files submission s produced
FilesProduced(s) ==
  IF component = "A" THEN Len(subs[s].files) ELSE Len(CallsOf(s))

\* C23: a generation submission that ended well has called createProject once
\* if it produced a file and a user is signed in, and not at all otherwise; a
\* failed save was logged, and the submission ended with its one reply and no
\* error message.
C23_SavedOncePerGeneration ==
  \A s \in Subs :
    GeneratedOk(s) =>
      /\ Len(SavesOf(s)) = IF user /\ FilesProduced(s) > 0 THEN 1 ELSE 0
      /\ subs[s].replies = 1
      /\ subs[s].saveLogged # "none" <=> Len(SavesOf(s)) = 1

\* the messages the assistant appended for submission s, in order
RepliesOf(s) == SelectSeq(messages, LAMBDA msg : msg.sub = s /\ msg.sender = "ai")

\* C24: a generation submission that ended well on a response without code
\* blocks has appended exactly one message for it, of the normal kind, with the
\* response text as content, and has generated no file.
C24_NoBlocksIsNormalMessage ==
  \A s \in Subs :
    (GeneratedOk(s) /\ Len(extracted[subs[s].resp]) = 0) =>
      /\ Len(RepliesOf(s)) = 1
      /\ RepliesOf(s)[1].type = "normal"
      /\ RepliesOf(s)[1].content = subs[s].resp
      /\ CallsOf(s) = <<>>

\* C25: a step leaves the messages of the log in place and appends at its end,
\* or it removes one error message and leaves the others in their order.
C25_LogAppendOrDismiss ==
  [][\/ /\ Len(messages') >= Len(messages)
        /\ SubSeq(messages', 1, Len(messages)) = messages
     \/ \E k \in 1..Len(messages) :
          /\ messages[k].type = "error"
          /\ messages' = SubSeq(messages, 1, k - 1)
                           \o SubSeq(messages, k + 1, Len(messages))]_vars

\* C26: a submission of "build a todo app" that ended well on the response with
\* an html block (a doctype document) followed by a css block (a body rule) has
\* made two onFileGenerated calls, named index.html and style.css in that
\* order, has appended exactly one message for it, which reports two generated
\* files, and the session is in chat mode.
C26_TodoAppEndToEnd ==
  \A s \in Subs :
    (GeneratedOk(s) /\ subs[s].prompt = PromptBuild /\ subs[s].resp = RespTwo) =>
      /\ [k \in 1..Len(CallsOf(s)) |-> CallsOf(s)[k].fileName]
           = <<FileNames.indexHtml, FileNames.styleCss>>
      /\ Len(RepliesOf(s)) = 1
      /\ RepliesOf(s)[1].filesGenerated = 2
      /\ ~isGenerationMode /\ generationComplete

\* C27: a submission issues its network call at most as many times as the
\* budget has attempts; each wait is twice the wait before it; and there are
\* fewer waits than attempts in the budget (the last failed attempt is followed
\* by no wait), exactly one fewer when every attempt failed.
C27_BoundedAttemptsDoublingWait ==
  \A s \in Subs :
    /\ subs[s].calls <= Budget
    /\ Len(subs[s].waits) <= Budget - 1
    /\ \A k \in 2..Len(subs[s].waits) : subs[s].waits[k] = 2 * subs[s].waits[k - 1]
    /\ (subs[s].pc = "done" /\ subs[s].fails = Budget) => Len(subs[s].waits) = Budget - 1

\* C27's case: every attempt of the budget of useRetry failed, after waits of
\* one, two and four seconds, and the error message is in the log.
C27_Witness ==
  \E s \in Subs :
    /\ subs[s].pc = "done" /\ subs[s].errs = 1
    /\ subs[s].calls = maxRetries + 1
    /\ subs[s].waits = <<1000, 2000, 4000>>

\* C28: after the k-th write of a replay of a text of n characters in chunks
\* of c the buffer holds the first min(k * c, n) characters of the text (so a
\* write adds c characters, the last one what is left), and when the replay
\* has completed the buffer holds the text.
C28_BufferIsPrefix ==
  LET k == Len(replay.log)
      c == ChunkOf(replay.variant)
      n == Len(replay.code) IN
  /\ (replay.pc \in { "typing", "done" } /\ k >= 1)
       => liveCoding.content = SubSeq(replay.code, 1, Min(k * c, n))
  /\ replay.pc = "done" => liveCoding.content = replay.code

\* C29: a step of a generation submission that was waiting for its response
\* when cancelGeneration ran calls onFileGenerated for no block and leaves
\* isGenerationMode and generationComplete as they were.
C29_CancelBeforeResponse ==
  [][\A s \in Subs :
       (subs[s].genBranch /\ subs[s].cancelSeen /\ subs'[s] # subs[s])
         => /\ fileCalls' = fileCalls
            /\ isGenerationMode' = isGenerationMode
            /\ generationComplete' = generationComplete]_vars

\* C30: the file names given to the blocks extracted from one response are
\* pairwise distinct, so the files saved under them are as many as the blocks.
C30_FileNamesDistinct ==
  xpc \in { "parsed", "matched" } =>
    /\ \A j \in 1..Len(blocks) : \A k \in 1..Len(blocks) :
         j # k => blocks[j].fileName # blocks[k].fileName
    /\ Cardinality({ blocks[k].fileName : k \in 1..Len(blocks) }) = Len(blocks)

====
